---- MODULE Spec2Model ----
(***************************************************************************)
(* Model of the request-coordination engine of the "Additional Artists     *)
(* Details" plugin (src/__init__.py, class ArtistDetailsPlugin).           *)
(*                                                                         *)
(* The plugin's class attributes (result_cache, album_processing_count,    *)
(* albums, album_area_requests) are the state.  The host's task scheduler  *)
(* is the variable tasks: the fetches handed to api.add_album_task whose   *)
(* completion handler has not run yet.  The metadata objects the host      *)
(* passes as destinations are the variable metadata.  Every handler of the *)
(* plugin runs to completion on the host's single thread, so one handler   *)
(* is one action.                                                          *)
(***************************************************************************)
EXTENDS Integers, Sequences, FiniteSets, TLC

VARIABLES
    result_cache,            \* ArtistDetailsPlugin.result_cache
    album_processing_count,  \* ArtistDetailsPlugin.album_processing_count
    albums,                  \* ArtistDetailsPlugin.albums
    album_area_requests,     \* ArtistDetailsPlugin.album_area_requests
    plugin_config,           \* api.plugin_config: the four registered options
    tasks,                   \* fetches issued with add_album_task, handler not yet run
    metadata,                \* host metadata objects: the artists whose fields are set on them
    issued,                  \* history: how many fetches were issued per identifier
    removed,                 \* history: albums removed and not processed since
    referenced,              \* history: artist ids passed to _artist_processing
    failed,                  \* history: artist ids whose fetch completed with an error
    written,                 \* history: albums written back in their current load cycle
    ev,                      \* what the last handler did (see NoEvent)
    drilled                  \* the last call of _drill_area and what it returned (see NoDrill)

vars == <<result_cache, album_processing_count, albums, album_area_requests,
          plugin_config, tasks,
          metadata, issued, removed, referenced, failed, written, ev, drilled>>

----------------------------------------------------------------------------
(* Bounds of the model *)

\* _add_target appends to albums[album][TRACKS] without limit; the model stops
\* processing an album once its list holds MaxTargets pairs (until it is removed).
MaxTargets == 2

Albums == {"X", "Y"}
Artists == {"a1", "a2"}
Areas == {"r1", "r2"}

\* The metadata objects of an album: the album's own and one track's.
ALBUM_META == "album"
TRACK_META == "t1"
Targets == Albums \X {ALBUM_META, TRACK_META}

----------------------------------------------------------------------------
(* Program constants *)

ARTIST == "artist"
AREA == "area"
RELATIONSHIP_TYPE_PART_OF == "part-of"
AREA_TYPE_COUNTRY == "country"
AREA_TYPE_COUNTY == "county"
AREA_TYPE_MUNICIPALITY == "municipality"
AREA_TYPE_SUBDIVISION == "subdivision"

\* namedtuple Area
Area(parent, name, country, type, type_text) ==
    [parent |-> parent, name |-> name, country |-> country, type |-> type,
     type_text |-> type_text]

\* namedtuple MetadataPair
MetadataPair(artists, target) == [artists |-> artists, target |-> target]

----------------------------------------------------------------------------
(* Python dict and set operations *)

Has(d, k) == k \in DOMAIN d
Put(d, k, v) == [x \in DOMAIN d \cup {k} |-> IF x = k THEN v ELSE d[x]]
Pop(d, k) == [x \in DOMAIN d \ {k} |-> d[x]]
EmptyDict == [x \in {} |-> 0]

\* A track payload without the 'artist-credit' field.
NoTrack == [has_credit |-> FALSE, credits |-> <<>>]

\* What one handler run did: the handler, its album, whether the write-back loop
\* of _save_artist_metadata ran, whether album._finalize_loading(None) was called,
\* and for make_track_vars the payload it was given and the calls of
\* _metadata_error it made, in order.
NoEvent == [op |-> "none", album |-> "", written_back |-> FALSE, finalized |-> FALSE,
            track_metadata |-> NoTrack, errors |-> <<>>]

\* The state a handler works on, as one record, so that the helper methods are
\* functions from state to state and compose in the order the code calls them.
State == [rc |-> result_cache, count |-> album_processing_count, albums |-> albums,
          aar |-> album_area_requests, tasks |-> tasks, md |-> metadata,
          issued |-> issued, written |-> written, ev |-> NoEvent]

----------------------------------------------------------------------------
(* Per-album bookkeeping *)

_add_album_area_request(s, album_id, area_id) ==
    LET cur == IF Has(s.aar, album_id) THEN s.aar[album_id] ELSE {}
    IN  [s EXCEPT !.aar = Put(s.aar, album_id, cur \cup {area_id})]

\* _remove_album_area_request emptying the album's set.
_remove_album_area_request_clears(s, album_id, area_id) ==
    IF Has(s.aar, album_id)
    THEN [s EXCEPT !.aar = Put(s.aar, album_id, {})]
    ELSE s

_remove_album_area_request(s, album_id, area_id) ==
    IF Has(s.aar, album_id)
    THEN [s EXCEPT !.aar = Put(s.aar, album_id, s.aar[album_id] \ {area_id})]
    ELSE s

_get_album_area_request_count(s, album_id) ==
    IF ~Has(s.aar, album_id) THEN 0 ELSE Cardinality(s.aar[album_id])

_make_empty_target(s, album_id) ==
    IF ~Has(s.albums, album_id)
    THEN [s EXCEPT !.albums = Put(s.albums, album_id, [album_artists |-> {}, tracks |-> <<>>])]
    ELSE s

_add_target(s, album_id, artists, target) ==
    LET s1 == _make_empty_target(s, album_id)
    IN  [s1 EXCEPT !.albums[album_id].tracks = Append(@, MetadataPair(artists, target))]

\* _remove_album forgetting to drop the album's targets.
_remove_album_keeps_targets(s, album_id) ==
    [s EXCEPT !.count = Pop(s.count, album_id)]

_remove_album(s, album_id) ==
    [s EXCEPT !.albums = Pop(s.albums, album_id),
              !.count = Pop(s.count, album_id)]

_album_add_request(s, album_id) ==
    LET cur == IF Has(s.count, album_id) THEN s.count[album_id] ELSE 0
    IN  [s EXCEPT !.count = Put(s.count, album_id, cur + 1)]

----------------------------------------------------------------------------
(* Area hierarchy: _drill_area *)

\* i = 7 in _drill_area
DRILL_LIMIT == 7

CONDITIONAL_LOCATIONS == {AREA_TYPE_COUNTY, AREA_TYPE_MUNICIPALITY, AREA_TYPE_SUBDIVISION}

\* ', '.join(location) is the empty string exactly for these lists of names; the
\* model keeps the list of components in place of the joined string.
JoinIsEmpty(location) ==
    \/ location = <<>>
    \/ Len(location) = 1 /\ location[1] = ""

\* The loop of _drill_area without the 'not location' test: the flags decide
\* for the first area as well.
RECURSIVE DrillLoopNoFirstHopRule(_, _, _, _, _, _)
DrillLoopNoFirstHopRule(cache, cfg, i, area_id, country, location) ==
    IF i = 0 \/ area_id = "" \/ country # ""
    THEN [country |-> country, location |-> location, lookups |-> DRILL_LIMIT - i]
    ELSE LET area == IF Has(cache, area_id) THEN cache[area_id]
                     ELSE Area("", "", "", "", "")
             include ==
                 IF area.type \notin CONDITIONAL_LOCATIONS
                 THEN TRUE
                 ELSE \/ area.type = AREA_TYPE_COUNTY /\ cfg.aad_area_county
                      \/ area.type = AREA_TYPE_MUNICIPALITY /\ cfg.aad_area_municipality
                      \/ area.type = AREA_TYPE_SUBDIVISION /\ cfg.aad_area_subdivision
         IN  DrillLoopNoFirstHopRule(cache, cfg, i - 1, area.parent, area.country,
                                     IF include THEN Append(location, area.name) ELSE location)

\* The loop of _drill_area climbing past an area that has a country code: it
\* ends on an empty identifier or with the counter and keeps the last code seen.
RECURSIVE DrillLoopPastCountry(_, _, _, _, _, _)
DrillLoopPastCountry(cache, cfg, i, area_id, country, location) ==
    IF i = 0 \/ area_id = ""
    THEN [country |-> country, location |-> location, lookups |-> DRILL_LIMIT - i]
    ELSE LET area == IF Has(cache, area_id) THEN cache[area_id]
                     ELSE Area("", "", "", "", "")
         IN  DrillLoopPastCountry(cache, cfg, i - 1, area.parent,
                                  IF area.country # "" THEN area.country ELSE country,
                                  Append(location, area.name))

\* The body of the while loop of _drill_area, and the loop.
RECURSIVE DrillLoop(_, _, _, _, _, _)
DrillLoop(cache, cfg, i, area_id, country, location) ==
    IF i = 0 \/ area_id = "" \/ country # ""
    THEN [country |-> country, location |-> location, lookups |-> DRILL_LIMIT - i]
    ELSE LET area == IF Has(cache, area_id) THEN cache[area_id]
                     ELSE Area("", "", "", "", "")
             include ==
                 IF location = <<>> \/ area.type \notin CONDITIONAL_LOCATIONS
                 THEN TRUE
                 ELSE \/ area.type = AREA_TYPE_COUNTY /\ cfg.aad_area_county
                      \/ area.type = AREA_TYPE_MUNICIPALITY /\ cfg.aad_area_municipality
                      \/ area.type = AREA_TYPE_SUBDIVISION /\ cfg.aad_area_subdivision
         IN  DrillLoop(cache, cfg, i - 1, area.parent, area.country,
                       IF include THEN Append(location, area.name) ELSE location)

\* The while loop of _drill_area without the counter i: it ends on an empty
\* identifier or a country code only (cut off after 20 lookups).
RECURSIVE DrillLoopUnguarded(_, _, _, _, _, _)
DrillLoopUnguarded(cache, cfg, n, area_id, country, location) ==
    IF n = 20 \/ area_id = "" \/ country # ""
    THEN [country |-> country, location |-> location, lookups |-> n]
    ELSE LET area == IF Has(cache, area_id) THEN cache[area_id]
                     ELSE Area("", "", "", "", "")
         IN  DrillLoopUnguarded(cache, cfg, n + 1, area.parent, area.country,
                                Append(location, area.name))

_drill_area_unguarded(cache, cfg, area_id) ==
    DrillLoopUnguarded(cache, cfg, 0, area_id, "", <<>>)

_drill_area(cache, cfg, area_id) == DrillLoop(cache, cfg, DRILL_LIMIT, area_id, "", <<>>)

\* No call of _drill_area yet.
NoDrill == [called |-> FALSE, area_id |-> "", country |-> "", location |-> <<>>, lookups |-> 0]

----------------------------------------------------------------------------
(* Write-back *)

AreaItems == <<"area", "begin-area", "end-area">>

\* item.replace('area', what).replace('-', '_') for the three area items
AreaKey(item, what) ==
    CASE item = "area" -> what
      [] item = "begin-area" -> "begin_" \o what
      [] item = "end-area" -> "end_" \o what

\* _set_artist_metadata: the keys (artist, key) set on one metadata object.
\* Every stored artist_info has the non-area item 'name'.
_set_artist_metadata(cache, cfg, artist_id, artist_info) ==
    {<<artist_id, "name">>}
    \cup UNION { LET d == _drill_area(cache, cfg, artist_info[AreaItems[k]])
                 IN  (IF d.country # "" THEN {<<artist_id, AreaKey(AreaItems[k], "country")>>} ELSE {})
                     \cup (IF ~JoinIsEmpty(d.location)
                           THEN {<<artist_id, AreaKey(AreaItems[k], "location")>>} ELSE {})
               : k \in {j \in 1..3 : artist_info[AreaItems[j]] # ""} }

\* The loop of _save_artist_metadata writing every artist of result_cache[ARTIST]
\* into every target of the album.
WriteTargetsAllCached(s, cfg, album_id) ==
    LET entry == s.albums[album_id]
        registered == {entry.tracks[i].target : i \in 1..Len(entry.tracks)}
    IN  [s EXCEPT !.md = [t \in DOMAIN s.md |-> IF t \in registered
                                                THEN s.md[t] \cup DOMAIN s.rc.artist
                                                ELSE s.md[t]],
                  !.ev.written_back = TRUE,
                  !.written = @ \cup {album_id}]

\* The for loop of _save_artist_metadata over albums[album_id][TRACKS].
WriteTargets(s, cfg, album_id) ==
    LET entry == s.albums[album_id]
        idx == 1..Len(entry.tracks)
        \* the artists for which _set_artist_metadata sets a key on the item's target
        Keys(item) == {a \in entry.album_artists \cup item.artists :
                          /\ Has(s.rc.artist, a)
                          /\ _set_artist_metadata(s.rc.area, cfg, a, s.rc.artist[a]) # {}}
        NewKeys(t) == UNION { Keys(entry.tracks[i]) : i \in {j \in idx : entry.tracks[j].target = t} }
    IN  [s EXCEPT !.md = [t \in DOMAIN s.md |-> s.md[t] \cup NewKeys(t)],
                  !.ev.written_back = TRUE,
                  !.written = @ \cup {album_id}]

\* _save_artist_metadata without the test of the outstanding areas.
_save_artist_metadata_no_area_test(s, cfg, album_id) ==
    IF Has(s.count, album_id) /\ s.count[album_id] # 0 THEN s
    ELSE IF ~Has(s.albums, album_id) \/ s.albums[album_id].tracks = <<>> THEN s
    ELSE WriteTargets(s, cfg, album_id)

_save_artist_metadata(s, cfg, album_id) ==
    IF Has(s.count, album_id) /\ s.count[album_id] # 0 THEN s
    ELSE IF _get_album_area_request_count(s, album_id) > 0 THEN s
    ELSE IF ~Has(s.albums, album_id) \/ s.albums[album_id].tracks = <<>> THEN s
    ELSE WriteTargets(s, cfg, album_id)

_album_remove_request(s, cfg, album_id) ==
    LET cur == IF Has(s.count, album_id) THEN s.count[album_id] ELSE 1
        s1 == [s EXCEPT !.count = Put(s.count, album_id, cur - 1)]
    IN  IF _get_album_area_request_count(s1, album_id) < 1
        THEN LET s2 == _save_artist_metadata(s1, cfg, album_id)
             IN  [s2 EXCEPT !.ev.finalized = TRUE]
        ELSE s1

----------------------------------------------------------------------------
(* Issuing fetches *)

Task(kind, id, album_id) == [kind |-> kind, id |-> id, album |-> album_id]

_get_artist_info(s, artist_id, album_id) ==
    LET s1 == _album_add_request(s, album_id)
    IN  [s1 EXCEPT !.tasks = @ \cup {Task(ARTIST, artist_id, album_id)},
                   !.issued.artist[artist_id] = @ + 1]

\* _get_area_info issuing the fetch without counting it for the album.
_get_area_info_uncounted(s, area_id, album_id) ==
    LET s1 == [s EXCEPT !.rc.area_requests = @ \cup {area_id}]
        s3 == _add_album_area_request(s1, album_id, area_id)
    IN  [s3 EXCEPT !.tasks = @ \cup {Task(AREA, area_id, album_id)},
                   !.issued.area[area_id] = @ + 1]

_get_area_info(s, area_id, album_id) ==
    LET s1 == [s EXCEPT !.rc.area_requests = @ \cup {area_id}]
        s2 == _album_add_request(s1, album_id)
        s3 == _add_album_area_request(s2, album_id, area_id)
    IN  [s3 EXCEPT !.tasks = @ \cup {Task(AREA, area_id, album_id)},
                   !.issued.area[area_id] = @ + 1]

\* One iteration that fetches without consulting ARTIST_REQUESTS.
ArtistStepNoDedup(s, temp_id, album_id) ==
    _get_artist_info([s EXCEPT !.rc.artist_requests = @ \cup {temp_id}], temp_id, album_id)

\* One iteration of the for loop of _artist_processing.
ArtistStep(s, temp_id, album_id) ==
    IF temp_id \notin s.rc.artist_requests
    THEN _get_artist_info([s EXCEPT !.rc.artist_requests = @ \cup {temp_id}], temp_id, album_id)
    ELSE s

\* The for loop of _artist_processing; the artists of a set are handled one by one
\* and the result does not depend on the order.
RECURSIVE ArtistLoop(_, _, _)
ArtistLoop(s, todo, album_id) ==
    IF todo = {} THEN s
    ELSE LET temp_id == CHOOSE a \in todo : TRUE
         IN  ArtistLoop(ArtistStep(s, temp_id, album_id), todo \ {temp_id}, album_id)

\* _artist_processing without the closing _save_artist_metadata.
_artist_processing_no_save(s, cfg, artists, album_id, destination_metadata) ==
    _add_target(ArtistLoop(s, artists, album_id), album_id, artists, destination_metadata)

_artist_processing(s, cfg, artists, album_id, destination_metadata) ==
    LET s1 == ArtistLoop(s, artists, album_id)
        s2 == _add_target(s1, album_id, artists, destination_metadata)
    IN  _save_artist_metadata(s2, cfg, album_id)

----------------------------------------------------------------------------
(* Documents of the web service *)

\* A key that a dictionary does not have.
ABSENT == "<absent>"

_parse_area(area_info) ==
    IF area_info.id = ABSENT
    THEN [id |-> "", name |-> "", country |-> "", type |-> "", type_text |-> ""]
    ELSE LET area_type == IF area_info.type_id # ABSENT THEN area_info.type_id ELSE ""
         IN  [id |-> area_info.id,
              name |-> IF area_info.name # ABSENT THEN area_info.name ELSE "Unknown Name",
              country |-> IF area_type = AREA_TYPE_COUNTRY
                          THEN IF area_info.iso1 # <<>> THEN area_info.iso1[1]
                               ELSE IF area_info.iso2 # <<>> THEN area_info.iso2[1].cc
                               ELSE ""
                          ELSE "",
              type |-> area_type,
              type_text |-> IF area_info.type # ABSENT THEN area_info.type
                            ELSE "Unknown Area Type"]

\* _add_country storing the country without marking it requested.
_add_country_unmarked(s, p) ==
    IF ~Has(s.rc.area, p.id)
    THEN [s EXCEPT !.rc.area = Put(@, p.id, Area("", p.name, p.country, p.type, p.type_text))]
    ELSE s

\* _add_country, the local function of _parse_area_relation
_add_country(s, p) ==
    IF ~Has(s.rc.area, p.id)
    THEN [s EXCEPT !.rc.area = Put(@, p.id, Area("", p.name, p.country, p.type, p.type_text)),
                   !.rc.area_requests = @ \cup {p.id}]
    ELSE s

\* _parse_area_relation with the last branch keeping the country code of the
\* related area in the record it stores.
_parse_area_relation_keeps_code(s, area_id, area_relation, album_id, area_name, area_type, area_type_text) ==
    IF \/ area_relation.type_id = ABSENT
       \/ ~area_relation.has_area
       \/ area_relation.type_id # RELATIONSHIP_TYPE_PART_OF
    THEN s
    ELSE LET p == _parse_area(area_relation.area)
         IN  IF p.id = "" THEN s
             ELSE IF area_relation.direction = "backward"
             THEN LET s1 == IF ~Has(s.rc.area, area_id)
                            THEN [s EXCEPT !.rc.area = Put(@, area_id,
                                                 Area(p.id, area_name, "", area_type, p.type_text)),
                                           !.rc.area_requests = @ \cup {area_id}]
                            ELSE s
                  IN  IF p.type = AREA_TYPE_COUNTRY
                      THEN _add_country(s1, p)
                      ELSE IF ~Has(s1.rc.area, p.id) /\ p.id \notin s1.rc.area_requests
                           THEN _get_area_info(s1, p.id, album_id)
                           ELSE s1
             ELSE IF area_relation.direction = "forward" /\ p.type = AREA_TYPE_COUNTRY
             THEN _add_country(s, p)
             ELSE [s EXCEPT !.rc.area_requests = @ \cup {p.id},
                            !.rc.area = Put(@, p.id, Area(area_id, p.name, p.country, p.type, p.type_text))]

_parse_area_relation(s, area_id, area_relation, album_id, area_name, area_type, area_type_text) ==
    IF \/ area_relation.type_id = ABSENT
       \/ ~area_relation.has_area
       \/ area_relation.type_id # RELATIONSHIP_TYPE_PART_OF
    THEN s
    ELSE LET p == _parse_area(area_relation.area)
         IN  IF p.id = "" THEN s
             ELSE IF area_relation.direction = "backward"
             THEN LET s1 == IF ~Has(s.rc.area, area_id)
                            THEN [s EXCEPT !.rc.area = Put(@, area_id,
                                                 Area(p.id, area_name, "", area_type, p.type_text)),
                                           !.rc.area_requests = @ \cup {area_id}]
                            ELSE s
                  IN  IF p.type = AREA_TYPE_COUNTRY
                      THEN _add_country(s1, p)
                      ELSE IF ~Has(s1.rc.area, p.id) /\ p.id \notin s1.rc.area_requests
                           THEN _get_area_info(s1, p.id, album_id)
                           ELSE s1
             ELSE IF area_relation.direction = "forward" /\ p.type = AREA_TYPE_COUNTRY
             THEN _add_country(s, p)
             ELSE [s EXCEPT !.rc.area_requests = @ \cup {p.id},
                            !.rc.area = Put(@, p.id, Area(area_id, p.name, "", p.type, p.type_text))]

----------------------------------------------------------------------------
(* Completion handlers *)

\* The loop over the area items fetching every area without consulting AREA_REQUESTS.
RECURSIVE ArtistAreaLoopNoDedup(_, _, _, _)
ArtistAreaLoopNoDedup(s, document, album_id, k) ==
    IF k > Len(<<"area", "begin-area", "end-area">>) THEN s
    ELSE LET area_id == document[<<"area", "begin-area", "end-area">>[k]]
             s1 == IF area_id # "" THEN _get_area_info(s, area_id, album_id) ELSE s
         IN  ArtistAreaLoopNoDedup(s1, document, album_id, k + 1)

\* The loop over ['area', 'begin-area', 'end-area'] of _artist_submission_handler.
RECURSIVE ArtistAreaLoop(_, _, _, _)
ArtistAreaLoop(s, document, album_id, k) ==
    IF k > Len(AreaItems) THEN s
    ELSE LET area_id == document[AreaItems[k]]
             s1 == IF area_id # "" /\ area_id \notin s.rc.area_requests
                   THEN _get_area_info(s, area_id, album_id)
                   ELSE s
         IN  ArtistAreaLoop(s1, document, album_id, k + 1)

\* _artist_submission_handler with the counter decremented on success only
\* (no finally block).
_artist_submission_handler_no_finally(s, cfg, document, error, artist, album_id) ==
    IF error THEN s
    ELSE LET s2 == ArtistAreaLoop(s, document, album_id, 1)
         IN  _album_remove_request([s2 EXCEPT !.rc.artist = Put(@, artist, document)],
                                   cfg, album_id)

\* _artist_submission_handler storing an empty record when the fetch failed.
_artist_submission_handler_stores_on_error(s, cfg, document, error, artist, album_id) ==
    LET s1 == IF error THEN [s EXCEPT !.rc.artist = Put(@, artist, document)]
              ELSE LET s2 == ArtistAreaLoop(s, document, album_id, 1)
                   IN  [s2 EXCEPT !.rc.artist = Put(@, artist, document)]
    IN  _album_remove_request(s1, cfg, album_id)

\* _artist_submission_handler: the try block, then the finally block.
_artist_submission_handler(s, cfg, document, error, artist, album_id) ==
    LET s1 == IF error THEN s
              ELSE LET s2 == ArtistAreaLoop(s, document, album_id, 1)
                   IN  [s2 EXCEPT !.rc.artist = Put(@, artist, document)]
    IN  _album_remove_request(s1, cfg, album_id)

\* The loop over document['relations'] of _area_submission_handler.
RECURSIVE RelationLoop(_, _, _, _, _)
RelationLoop(s, p, relations, album_id, k) ==
    IF k > Len(relations) THEN s
    ELSE RelationLoop(_parse_area_relation(s, p.id, relations[k], album_id, p.name, p.type, p.type_text),
                      p, relations, album_id, k + 1)

\* _area_submission_handler: the try block, then the finally block.
_area_submission_handler(s, cfg, document, error, area, album_id) ==
    LET s1 == IF error THEN s
              ELSE LET p == _parse_area(document.info)
                       s2 == IF p.type = AREA_TYPE_COUNTRY /\ ~Has(s.rc.area, p.id)
                             THEN [s EXCEPT !.rc.area = Put(@, p.id,
                                               Area("", p.name, p.country, p.type, p.type_text))]
                             ELSE s
                   IN  RelationLoop(s2, p, document.relations, album_id, 1)
        s3 == _remove_album_area_request(s1, album_id, area)
    IN  _album_remove_request(s3, cfg, album_id)

----------------------------------------------------------------------------
(* Inputs *)

\* An artist document: its three area items ("" when the item is missing or has
\* no id); every document has a name.  The artists of the model have no area,
\* or r1 both as area and as begin-area.
ArtistDoc(a, b, e) == [item \in {"area", "begin-area", "end-area"} |->
                          CASE item = "area" -> a
                            [] item = "begin-area" -> b
                            [] item = "end-area" -> e]
ArtistDocs == {ArtistDoc("", "", ""), ArtistDoc("r1", "r1", "")}

\* r1 is a county; r2 is a county or a country.
DocTypes(area) == IF area = "r1" THEN {AREA_TYPE_COUNTY} ELSE {AREA_TYPE_COUNTRY, AREA_TYPE_COUNTY}

AreaInfo(id, type) ==
    [id |-> id, name |-> id, type_id |-> type, type |-> type,
     iso1 |-> IF type = AREA_TYPE_COUNTRY THEN <<"C-" \o id>> ELSE <<>>,
     iso2 |-> <<>>]

Relation(type_id, direction, id, type) ==
    [type_id |-> type_id, has_area |-> TRUE, direction |-> direction, area |-> AreaInfo(id, type)]

\* The relations an area document may list: r1 is a part of r2.
Relations(area) ==
    IF area = "r1"
    THEN {Relation(RELATIONSHIP_TYPE_PART_OF, "backward", "r2", t) : t \in DocTypes("r2")}
    ELSE {}

\* The documents returned for an area: its own type and at most one relation.
AreaDocs(area) ==
    {[info |-> AreaInfo(area, t), relations |-> rels] :
        t \in DocTypes(area), rels \in {<<>>} \cup {<<r>> : r \in Relations(area)}}

\* A credit of a track payload: an artist that has an id, an artist without id,
\* or no artist.  The track of the model credits a2 and has one credit without
\* an artist.
Credit(a) == [has_artist |-> TRUE, id |-> a]
NoArtistCredit == [has_artist |-> FALSE, id |-> ABSENT]
NoIdCredit == [has_artist |-> TRUE, id |-> ABSENT]
TrackPayloads ==
    {[has_credit |-> TRUE, credits |-> c] :
            c \in {<<Credit("a2"), NoArtistCredit>>}}

\* album.get_album_artists() of the albums of the model: both credit a1.
AlbumArtistsOf(album_id) == IF album_id = "X" THEN {"a1"} ELSE {"a1", "a2"}

----------------------------------------------------------------------------
(* Handlers as actions *)

Commit(s) ==
    /\ result_cache' = s.rc
    /\ album_processing_count' = s.count
    /\ albums' = s.albums
    /\ album_area_requests' = s.aar
    /\ tasks' = s.tasks
    /\ metadata' = s.md
    /\ issued' = s.issued
    /\ written' = s.written
    /\ ev' = s.ev

Begin(op, album_id) == [State EXCEPT !.ev.op = op, !.ev.album = album_id]

TargetCount(album_id) == IF Has(albums, album_id) THEN Len(albums[album_id].tracks) ELSE 0

\* make_album_vars; artists is set(artist.id for artist in album.get_album_artists())
make_album_vars(album_id, artists) ==
    /\ TargetCount(album_id) < MaxTargets
    /\ LET s0 == _make_empty_target(Begin("make_album_vars", album_id), album_id)
           s1 == [s0 EXCEPT !.albums[album_id].album_artists = artists]
       IN  Commit(_artist_processing(s1, plugin_config, artists, album_id, <<album_id, ALBUM_META>>))
    /\ referenced' = referenced \cup artists
    /\ removed' = removed \ {album_id}
    /\ UNCHANGED <<drilled, plugin_config, failed>>

\* The loop of make_track_vars over track_metadata['artist-credit'].
RECURSIVE CreditLoop(_, _, _)
CreditLoop(acc, credits, k) ==
    IF k > Len(credits) THEN acc
    ELSE LET artist_credit == credits[k]
         IN  IF artist_credit.has_artist
             THEN CreditLoop([acc EXCEPT !.artists = IF artist_credit.id # ABSENT
                                                     THEN @ \cup {artist_credit.id} ELSE @],
                             credits, k + 1)
             ELSE CreditLoop([acc EXCEPT !.errors = Append(@, "artist-credit.artist")],
                             credits, k + 1)

\* The artists make_track_vars collects, and the elements it reports missing.
TrackArtists(cfg, track_metadata) ==
    IF cfg.aad_process_tracks
    THEN IF track_metadata.has_credit
         THEN CreditLoop([artists |-> {}, errors |-> <<>>], track_metadata.credits, 1)
         ELSE [artists |-> {}, errors |-> <<"artist-credit">>]
    ELSE [artists |-> {}, errors |-> <<>>]

make_track_vars(album_id, track_metadata) ==
    /\ TargetCount(album_id) < MaxTargets
    /\ LET r == TrackArtists(plugin_config, track_metadata)
           s0 == [Begin("make_track_vars", album_id) EXCEPT !.ev.track_metadata = track_metadata,
                                                            !.ev.errors = r.errors]
       IN  /\ Commit(_artist_processing(s0, plugin_config, r.artists, album_id, <<album_id, TRACK_META>>))
           /\ referenced' = referenced \cup r.artists
    /\ removed' = removed \ {album_id}
    /\ UNCHANGED <<drilled, plugin_config, failed>>

\* remove_album, registered as the album post-removal processor.  The host drops
\* the album with its metadata objects; a later load creates new, empty ones.
remove_album(album_id) ==
    /\ LET s0 == _remove_album(Begin("remove_album", album_id), album_id)
       IN  Commit([s0 EXCEPT !.md = [t \in DOMAIN @ |-> IF t[1] = album_id THEN {} ELSE @[t]],
                             !.written = @ \ {album_id}])
    /\ removed' = removed \cup {album_id}
    /\ UNCHANGED <<drilled, plugin_config, referenced, failed>>

\* The scheduler runs the handler of an artist fetch, with a document or an error
\* (a timeout is an error).
ArtistDone(t, document, error) ==
    /\ t \in tasks /\ t.kind = ARTIST
    /\ LET s0 == Begin("artist_done", t.album)
       IN  Commit(_artist_submission_handler([s0 EXCEPT !.tasks = @ \ {t}], plugin_config,
                                          document, error, t.id, t.album))
    /\ failed' = IF error THEN failed \cup {t.id} ELSE failed
    /\ UNCHANGED <<drilled, plugin_config, removed, referenced>>

\* The scheduler runs the handler of an area fetch.
AreaDone(t, document, error) ==
    /\ t \in tasks /\ t.kind = AREA
    /\ LET s0 == Begin("area_done", t.album)
       IN  Commit(_area_submission_handler([s0 EXCEPT !.tasks = @ \ {t}], plugin_config,
                                        document, error, t.id, t.album))
    /\ UNCHANGED <<drilled, plugin_config, removed, referenced, failed>>

----------------------------------------------------------------------------
(* The specification *)

\* enable() registers the three area options as True; track processing is
\* registered as False and has been turned on by the user (with it off,
\* make_track_vars registers its target with no artists, as it does here for a
\* payload without credits).
Config == [aad_process_tracks |-> TRUE, aad_area_county |-> TRUE,
           aad_area_municipality |-> TRUE, aad_area_subdivision |-> TRUE]

Init ==
    /\ result_cache = [artist |-> EmptyDict, artist_requests |-> {},
                       area |-> EmptyDict, area_requests |-> {}]
    /\ album_processing_count = EmptyDict
    /\ albums = EmptyDict
    /\ album_area_requests = EmptyDict
    /\ plugin_config = Config
    /\ tasks = {}
    /\ metadata = [t \in Targets |-> {}]
    /\ issued = [artist |-> [a \in Artists |-> 0], area |-> [r \in Areas |-> 0]]
    /\ removed = {}
    /\ referenced = {}
    /\ failed = {}
    /\ written = {}
    /\ ev = NoEvent
    /\ drilled = NoDrill

\* The outcomes of a fetch: a document or an error.
ArtistResolved(t) == \E document \in ArtistDocs : ArtistDone(t, document, FALSE)
ArtistFailed(t) == ArtistDone(t, ArtistDoc("", "", ""), TRUE)
AreaResolved(t) == t.kind = AREA /\ \E document \in AreaDocs(t.id) : AreaDone(t, document, FALSE)
AreaFailed(t) == t.kind = AREA /\ AreaDone(t, [info |-> AreaInfo(t.id, ""), relations |-> <<>>], TRUE)

\* The scheduler runs the handler of some fetch in flight.
Complete ==
    \E t \in tasks : ArtistResolved(t) \/ ArtistFailed(t) \/ AreaResolved(t) \/ AreaFailed(t)

Next ==
    \/ \E al \in Albums : make_album_vars(al, AlbumArtistsOf(al))
    \/ \E al \in Albums, payload \in TrackPayloads : make_track_vars(al, payload)
    \/ \E al \in Albums : remove_album(al)
    \/ \E t \in tasks : ArtistResolved(t)
    \/ \E t \in tasks : ArtistFailed(t)
    \/ \E t \in tasks : AreaFailed(t)
    \/ \E t \in tasks : AreaResolved(t)

Spec == Init /\ [][Next]_vars

----------------------------------------------------------------------------
(* The area hierarchy under a wider choice of documents *)

\* Artist documents that name r1 or r2 as area, begin-area or end-area.
ArtistAreaDocs ==
    {ArtistDoc("", "", ""), ArtistDoc("r1", "r1", ""), ArtistDoc("r2", "", ""),
     ArtistDoc("r1", "", "r2")}

\* The relations of an area document in every branch of _parse_area_relation:
\* r1 is a part of r2 (backward from r1, forward from r2); a relation may lack
\* its direction, and a forward relation may lead to a country.
AreaRelations(area) ==
    IF area = "r1"
    THEN {Relation(RELATIONSHIP_TYPE_PART_OF, "backward", "r2", t) : t \in DocTypes("r2")}
    ELSE {Relation(RELATIONSHIP_TYPE_PART_OF, "forward", "r1", AREA_TYPE_COUNTY),
          Relation(RELATIONSHIP_TYPE_PART_OF, "forward", "r1", AREA_TYPE_COUNTRY),
          Relation(RELATIONSHIP_TYPE_PART_OF, ABSENT, "r1", AREA_TYPE_COUNTY)}

AreaHierarchyDocs(area) ==
    {[info |-> AreaInfo(area, t), relations |-> rels] :
        t \in DocTypes(area), rels \in {<<>>} \cup {<<r>> : r \in AreaRelations(area)}}

ArtistResolvedWide(t) == \E document \in ArtistAreaDocs : ArtistDone(t, document, FALSE)
AreaResolvedWide(t) ==
    t.kind = AREA /\ \E document \in AreaHierarchyDocs(t.id) : AreaDone(t, document, FALSE)

\* Albums are processed and fetches complete; no album is removed.
AreaNext ==
    \/ \E al \in Albums : make_album_vars(al, AlbumArtistsOf(al))
    \/ \E t \in tasks : ArtistResolvedWide(t)
    \/ \E t \in tasks : ArtistFailed(t)
    \/ \E t \in tasks : AreaFailed(t)
    \/ \E t \in tasks : AreaResolvedWide(t)

AreaSpec == Init /\ [][AreaNext]_vars

----------------------------------------------------------------------------
(* _drill_area over area caches of every shape *)

\* The longest parent chain of the caches below.
MaxChain == 9

DrillIds == <<"d1", "d2", "d3", "d4", "d5", "d6", "d7", "d8", "d9", "d10", "d11", "d12">>
DrillNames == <<"n1", "n2", "n3", "n4", "n5", "n6", "n7", "n8", "n9", "n10", "n11", "n12">>

\* The types of the areas of a chain; "city" stands for a type outside
\* CONDITIONAL_LOCATIONS that is not the country type.
HopTypes == {AREA_TYPE_COUNTY, AREA_TYPE_MUNICIPALITY, AREA_TYPE_SUBDIVISION, "city"}

\* A cache holding the chain d1 -> d2 -> ... -> d<len> of parents.  The last area
\* has no parent ("end"), has d1 as parent ("cycle") or has a parent that is not
\* in the cache ("dangling").  The area at position country_at (0: none) is a
\* country with the code "CC" and the area above it a country with the code "XX";
\* the others take their types from types, in turn.
ChainCache(len, tail, country_at, types) ==
    [id \in {DrillIds[k] : k \in 1..len} |->
        LET k == CHOOSE j \in 1..len : DrillIds[j] = id
        IN  Area(IF k < len THEN DrillIds[k + 1]
                 ELSE CASE tail = "end" -> ""
                        [] tail = "cycle" -> DrillIds[1]
                        [] tail = "dangling" -> DrillIds[len + 1],
                 DrillNames[k],
                 IF k = country_at THEN "CC"
                 ELSE IF country_at > 0 /\ k = country_at + 1 THEN "XX" ELSE "",
                 IF k = country_at \/ (country_at > 0 /\ k = country_at + 1)
                 THEN AREA_TYPE_COUNTRY ELSE types[((k - 1) % 3) + 1],
                 "text")]

DrillCaches ==
    {ChainCache(len, tail, country_at, types) :
        len \in 1..MaxChain, tail \in {"end", "cycle", "dangling"},
        country_at \in 0..MaxChain, types \in [1..3 -> HopTypes]}

\* The options page sets each of the three area options to True or False.
DrillConfigs ==
    {[aad_process_tracks |-> TRUE, aad_area_county |-> c, aad_area_municipality |-> m,
      aad_area_subdivision |-> sd] : c \in BOOLEAN, m \in BOOLEAN, sd \in BOOLEAN}

\* The identifiers _drill_area is called with: stored ones, the empty one, and
\* one that has no record.
DrillStarts == {"d1", "d2", "", "zz"}

DrillInit ==
    /\ result_cache \in {[artist |-> EmptyDict, artist_requests |-> {},
                          area |-> cache, area_requests |-> DOMAIN cache] : cache \in DrillCaches}
    /\ plugin_config \in DrillConfigs
    /\ album_processing_count = EmptyDict
    /\ albums = EmptyDict
    /\ album_area_requests = EmptyDict
    /\ tasks = {}
    /\ metadata = [t \in Targets |-> {}]
    /\ issued = [artist |-> [a \in Artists |-> 0], area |-> [r \in Areas |-> 0]]
    /\ removed = {}
    /\ referenced = {}
    /\ failed = {}
    /\ written = {}
    /\ ev = NoEvent
    /\ drilled = NoDrill

\* One call of _drill_area.
DrillCall(area_id) ==
    /\ LET r == _drill_area(result_cache.area, plugin_config, area_id)
       IN  drilled' = [called |-> TRUE, area_id |-> area_id, country |-> r.country,
                       location |-> r.location, lookups |-> r.lookups]
    /\ UNCHANGED <<result_cache, album_processing_count, albums, album_area_requests,
                   plugin_config, tasks, metadata, issued, removed, referenced, failed,
                   written, ev>>

DrillNext == \E area_id \in DrillStarts : DrillCall(area_id)

DrillSpec == DrillInit /\ [][DrillNext]_vars

----------------------------------------------------------------------------
(* Track payloads of every shape *)

\* Payloads without 'artist-credit', with an empty list, with credits that lack
\* 'artist', and with credits whose 'artist' lacks 'id'.
TrackShapes ==
    {NoTrack} \cup
    {[has_credit |-> TRUE, credits |-> c] :
        c \in {<<>>, <<Credit("a2")>>, <<NoArtistCredit>>, <<NoIdCredit>>,
               <<Credit("a2"), NoArtistCredit>>, <<Credit("a1"), NoIdCredit>>,
               <<NoArtistCredit, NoIdCredit, NoArtistCredit>>}}

\* Albums and tracks of every shape are processed and fetches complete.
TrackNext ==
    \/ \E al \in Albums : make_album_vars(al, AlbumArtistsOf(al))
    \/ \E al \in Albums, payload \in TrackShapes : make_track_vars(al, payload)
    \/ Complete

TrackSpec == Init /\ [][TrackNext]_vars

----------------------------------------------------------------------------
(* Vocabulary of the properties *)

\* The fetches issued on behalf of an album whose handler has not run yet.
InFlight(album_id) == {t \in tasks : t.album = album_id}

OutstandingAreas(album_id) ==
    IF Has(album_area_requests, album_id) THEN album_area_requests[album_id] ELSE {}

\* The three conditions of a write-back: counter 0 or absent, no outstanding
\* area, at least one registered destination.
Ready(album_id) ==
    /\ ~Has(album_processing_count, album_id) \/ album_processing_count[album_id] = 0
    /\ OutstandingAreas(album_id) = {}
    /\ Has(albums, album_id) /\ albums[album_id].tracks # <<>>

\* Some destination of the album holds fields of an artist.
HoldsFields(album_id) == \E t \in Targets : t[1] = album_id /\ metadata[t] # {}

Completions == {"artist_done", "area_done"}

----------------------------------------------------------------------------
(* C1 *)

\* C1: an artist id is in result_cache[ARTIST_REQUESTS] exactly when a fetch for
\* it has been issued, no artist is fetched twice, and every artist id passed to
\* _artist_processing (by any album) has exactly one fetch issued for it.
C1_OneFetchPerArtist ==
    \A a \in Artists :
        /\ a \in result_cache.artist_requests <=> issued.artist[a] >= 1
        /\ issued.artist[a] <= 1
        /\ a \in referenced => issued.artist[a] = 1

\* Both albums are registered with a1 among their album artists, a1 was fetched
\* once and its fetch has completed.
C1_Witness ==
    /\ Has(albums, "X") /\ Has(albums, "Y")
    /\ "a1" \in albums["X"].album_artists \cap albums["Y"].album_artists
    /\ issued.artist["a1"] = 1
    /\ Has(result_cache.artist, "a1")

----------------------------------------------------------------------------
(* C2 *)

\* C2: album_processing_count[album] is never negative, also when the album is
\* removed while two of its fetches are outstanding and they complete afterwards.
C2_CounterNeverNegative ==
    \A al \in DOMAIN album_processing_count : album_processing_count[al] >= 0

----------------------------------------------------------------------------
(* C3 *)

\* C3: when the handler that just ran wrote back into the destinations of its
\* album, the album's counter is 0 or absent, its outstanding-area set is empty
\* and it has a registered destination (the write-back is the handler's last
\* change of state); in any other state nothing was written.
C3_WriteBackOnlyWhenReady == ev.written_back => Ready(ev.album)

\* The completion of an artist fetch wrote the artist's fields into a destination.
C3_Witness ==
    /\ ev.op = "artist_done" /\ ev.written_back
    /\ HoldsFields(ev.album)

----------------------------------------------------------------------------
(* C4 *)

\* C4: when a handler writes fields back into the destinations of an album, no
\* fetch issued on behalf of that album is still in flight.
C4_NoWriteBackWhileInFlight ==
    (ev.written_back /\ HoldsFields(ev.album)) => InFlight(ev.album) = {}

----------------------------------------------------------------------------
(* C5 *)

\* C5 as stated: within one load cycle of an album the write-back is performed
\* once, so no handler writes back an album that was already written back since
\* its last removal.
C5_WriteBackOncePerCycle ==
    [][\A al \in Albums : ~(al \in written /\ ev'.album = al /\ ev'.written_back)]_vars

\* C5 as amended: every make_album_vars or make_track_vars call and every
\* completion after which the album's counter is 0 or absent, its outstanding-area
\* set is empty and a destination is registered performs the write-back (so a load
\* cycle may see several write-backs, one per such handler run).
C5_WriteBackAtEveryReadyStep ==
    (ev.op # "none" /\ Ready(ev.album)) => ev.written_back

\* The second processing call of a cycle in which no fetch was ever counted for
\* the album (its artists were requested before): both calls wrote back.
C5_Witness ==
    /\ ev.op = "make_track_vars" /\ ev.written_back
    /\ Len(albums[ev.album].tracks) = 2
    /\ ~Has(album_processing_count, ev.album)
    /\ HoldsFields(ev.album)

----------------------------------------------------------------------------
(* C6 *)

\* C6: a completion calls album._finalize_loading(None) only when it leaves the
\* album's counter at 0 and its outstanding-area set empty.
C6_FinalizeOnlyWhenNothingOutstanding ==
    ev.finalized =>
        /\ Has(album_processing_count, ev.album) /\ album_processing_count[ev.album] = 0
        /\ OutstandingAreas(ev.album) = {}

----------------------------------------------------------------------------
(* C7 *)

\* No album is removed.
NextKept ==
    \/ \E al \in Albums : make_album_vars(al, AlbumArtistsOf(al))
    \/ \E al \in Albums, payload \in TrackPayloads : make_track_vars(al, payload)
    \/ Complete

\* A step that ran the handler of a fetch: the fetch is no longer in flight.
HandlerRan == \E t \in tasks : t \notin tasks'

\* The scheduler keeps running handlers while fetches are in flight: weak
\* fairness of Complete, which is enabled exactly when tasks is not empty,
\* written out (infinitely often no fetch is in flight, or infinitely often a
\* handler runs).  Every identifier is fetched at most once, so only finitely
\* many fetches are ever issued and this makes every issued fetch complete.
SchedulerFairness == []<>(tasks = {}) \/ []<><<HandlerRan>>_vars

LiveSpec == Init /\ [][NextKept]_vars /\ SchedulerFairness

\* C7: an album with a fetch in flight eventually sees a completion that leaves
\* its counter at 0 and its outstanding-area set empty, writes back and signals
\* finalization; a failed fetch does not keep it waiting.
C7_AlbumEventuallyDone ==
    \A al \in Albums :
        (InFlight(al) # {}) ~>
            (/\ ev.op \in Completions /\ ev.album = al
             /\ Has(album_processing_count, al) /\ album_processing_count[al] = 0
             /\ OutstandingAreas(al) = {}
             /\ ev.written_back /\ ev.finalized)

\* A completion brought the counter of an album to 0 after one of the artist
\* fetches had failed.
C7_Witness ==
    /\ ev.op \in Completions /\ ev.written_back /\ ev.finalized
    /\ Has(album_processing_count, ev.album) /\ album_processing_count[ev.album] = 0
    /\ InFlight(ev.album) = {}
    /\ failed # {}

----------------------------------------------------------------------------
(* C8 *)

\* The artists an album refers to: its album artists and those of its targets.
ArtistsOf(album_id) ==
    albums[album_id].album_artists
    \cup UNION {albums[album_id].tracks[i].artists : i \in 1..Len(albums[album_id].tracks)}

\* C8: an artist whose fetch failed has no record in result_cache[ARTIST], and
\* once the last fetch of an album that refers to such an artist has completed,
\* every destination of the album holds the fields of each of its artists that
\* has a record.
C8_FailedArtistDoesNotBlockOthers ==
    /\ \A a \in failed : ~Has(result_cache.artist, a)
    /\ \A al \in DOMAIN albums :
          (/\ ev.op \in Completions /\ ev.album = al /\ InFlight(al) = {}
           /\ ArtistsOf(al) \cap failed # {}) =>
              \A i \in 1..Len(albums[al].tracks) :
                  \A a \in albums[al].album_artists \cup albums[al].tracks[i].artists :
                      Has(result_cache.artist, a) => a \in metadata[albums[al].tracks[i].target]

----------------------------------------------------------------------------
(* C9 *)

\* C9: right after remove_album the album has no entry in albums, none in
\* album_processing_count and no outstanding area identifier.
C9_RemoveDropsAllState ==
    ev.op = "remove_album" =>
        /\ ~Has(albums, ev.album)
        /\ ~Has(album_processing_count, ev.album)
        /\ OutstandingAreas(ev.album) = {}

----------------------------------------------------------------------------
(* C10 *)

\* C10: while an album is removed and not processed again, no handler writes back
\* for it and its destinations hold no field.
C10_NoWriteAfterRemoval ==
    \A al \in removed :
        /\ ~(ev.album = al /\ ev.written_back)
        /\ ~HoldsFields(al)

\* All late completions of a removed album have arrived, one of them with an
\* artist record.
C10_Witness ==
    /\ ev.op \in Completions /\ ev.album \in removed
    /\ InFlight(ev.album) = {}
    /\ \E a \in Artists : Has(result_cache.artist, a)

----------------------------------------------------------------------------
(* C11 *)

\* C11: a completion that arrives for an album removed and not processed since
\* leaves the album without an entry in album_processing_count, albums and
\* album_area_requests, and does not call album._finalize_loading.
C11_LateCompletionIsNoOp ==
    (ev.op \in Completions /\ ev.album \in removed) =>
        /\ ~Has(album_processing_count, ev.album)
        /\ ~Has(albums, ev.album)
        /\ ~Has(album_area_requests, ev.album)
        /\ ~ev.finalized

----------------------------------------------------------------------------
(* C12 *)

\* C12: for every area identifier at most one area fetch is ever issued, however
\* many artists and backward part-of relations refer to it.
C12_OneFetchPerArea == \A r \in Areas : issued.area[r] <= 1

\* Both artists name r1, r1 was fetched once and its document linked it to r2,
\* which a1 names as well and which was fetched once.
C12_Witness ==
    /\ Has(result_cache.artist, "a1") /\ Has(result_cache.artist, "a2")
    /\ result_cache.artist["a1"]["area"] = "r1" /\ result_cache.artist["a1"]["end-area"] = "r2"
    /\ result_cache.artist["a2"]["area"] = "r1"
    /\ Has(result_cache.area, "r1") /\ result_cache.area["r1"].parent = "r2"
    /\ issued.area["r1"] = 1 /\ issued.area["r2"] = 1

----------------------------------------------------------------------------
(* C13 *)

----------------------------------------------------------------------------
(* C14 *)

\* C14: a record of result_cache[AREA] is never replaced or changed by a later
\* area response or relation.
C14_AreaRecordNeverReplaced ==
    [][\A r \in DOMAIN result_cache.area :
           /\ r \in DOMAIN result_cache'.area
           /\ result_cache'.area[r] = result_cache.area[r]]_vars

----------------------------------------------------------------------------
(* C15, C16 *)

\* The identifier of the k-th area on the parent chain from start ("" past its end).
RECURSIVE HopId(_, _, _)
HopId(cache, start, k) ==
    IF k = 1 THEN start
    ELSE LET prev == HopId(cache, start, k - 1)
         IN  IF prev # "" /\ Has(cache, prev) THEN cache[prev].parent ELSE ""

\* The record of the k-th area on the chain.
HopArea(cache, start, k) ==
    LET id == HopId(cache, start, k)
    IN  IF id # "" /\ Has(cache, id) THEN cache[id] ELSE Area("", "", "", "", "")

\* The chain from start neither ends nor shows a country code within its first
\* 7 areas: a parent cycle without a country, or a chain of more than 7
\* non-country areas.
NoEndWithin7(cache, start) ==
    /\ start # ""
    /\ \A k \in 1..7 : /\ HopArea(cache, start, k).country = ""
                       /\ HopArea(cache, start, k).parent # ""

\* C15: _drill_area performs at most 7 area lookups and returns at most 7
\* location components; on a parent cycle without a country code and on a chain
\* of more than 7 non-country areas it stops after exactly 7 lookups with an
\* empty country code.
C15_DrillAreaBounded ==
    drilled.called =>
        /\ drilled.lookups <= 7
        /\ Len(drilled.location) <= 7
        /\ NoEndWithin7(result_cache.area, drilled.area_id) =>
               drilled.lookups = 7 /\ drilled.country = ""

\* _drill_area ran on a parent cycle of two areas without a country code.
C15_Witness ==
    /\ drilled.called /\ drilled.area_id = "d1"
    /\ DOMAIN result_cache.area = {"d1", "d2"}
    /\ result_cache.area["d2"].parent = "d1"
    /\ \A id \in {"d1", "d2"} : result_cache.area[id].country = ""
    /\ drilled.lookups = 7

\* Whether the flags include the name of an area of this type.
FlagAllows(cfg, type) ==
    \/ type \notin {AREA_TYPE_COUNTY, AREA_TYPE_MUNICIPALITY, AREA_TYPE_SUBDIVISION}
    \/ type = AREA_TYPE_COUNTY /\ cfg.aad_area_county
    \/ type = AREA_TYPE_MUNICIPALITY /\ cfg.aad_area_municipality
    \/ type = AREA_TYPE_SUBDIVISION /\ cfg.aad_area_subdivision

\* C16: the location components are, in order, the name of the start area and
\* the names of those later areas looked up whose type is not county,
\* municipality or subdivision or whose type's flag is on.
C16_LocationComponents ==
    drilled.called =>
        LET cache == result_cache.area
            hops == [k \in 1..drilled.lookups |->
                        [k |-> k, area |-> HopArea(cache, drilled.area_id, k)]]
            Kept(h) == h.k = 1 \/ FlagAllows(plugin_config, h.area.type)
            kept == SelectSeq(hops, Kept)
        IN  drilled.location = [j \in 1..Len(kept) |-> kept[j].area.name]

\* The start area is a county and the county flag is off: its name is the first
\* component; the second area is a county too and its name is left out, the
\* third is of another type and its name is the second component.
C16_Witness ==
    /\ drilled.called /\ drilled.area_id = "d1" /\ drilled.lookups >= 3
    /\ {"d1", "d2", "d3"} \subseteq DOMAIN result_cache.area
    /\ Len(drilled.location) >= 2
    /\ ~plugin_config.aad_area_county
    /\ result_cache.area["d1"].type = AREA_TYPE_COUNTY
    /\ result_cache.area["d2"].type = AREA_TYPE_COUNTY
    /\ result_cache.area["d3"].type = "city"
    /\ drilled.location[1] = "n1" /\ drilled.location[2] = "n3"

----------------------------------------------------------------------------
(* C17 *)

\* The credits of a payload that lack 'artist', and those whose 'artist' lacks 'id'.
CreditsWithoutArtist(tm) == {k \in 1..Len(tm.credits) : ~tm.credits[k].has_artist}
CreditsWithoutId(tm) ==
    {k \in 1..Len(tm.credits) : tm.credits[k].has_artist /\ tm.credits[k].id = ABSENT}
WellFormedIds(tm) ==
    {tm.credits[k].id : k \in {j \in 1..Len(tm.credits) :
                                  tm.credits[j].has_artist /\ tm.credits[j].id # ABSENT}}

\* What make_track_vars does whatever the shape of the payload: it registers the
\* destination with the identifiers of the well-formed credits (none when the
\* field is missing), issues fetches for those only, and logs the missing field
\* and every credit without 'artist'.
TrackShapeTolerated ==
    [][ev'.op = "make_track_vars" =>
          LET tm == ev'.track_metadata
              al == ev'.album
          IN  /\ Has(albums', al)
              /\ albums'[al].tracks[Len(albums'[al].tracks)] =
                     MetadataPair(WellFormedIds(tm), <<al, TRACK_META>>)
              /\ \A a \in Artists : issued'.artist[a] # issued.artist[a] => a \in WellFormedIds(tm)
              /\ ~tm.has_credit => ev'.errors = <<"artist-credit">>
              /\ tm.has_credit => Len(ev'.errors) >= Cardinality(CreditsWithoutArtist(tm))]_vars

\* C17: with track processing enabled, make_track_vars logs one metadata error
\* when the payload lacks 'artist-credit' and one for every credit that lacks
\* 'artist' or whose 'artist' lacks 'id'; it registers the destination of the
\* album with the identifiers of the well-formed credits only and issues no
\* fetch for anything else.
C17_MalformedTrackLoggedAndTolerated ==
    [][ev'.op = "make_track_vars" =>
          LET tm == ev'.track_metadata
              al == ev'.album
          IN  /\ Has(albums', al)
              /\ albums'[al].tracks[Len(albums'[al].tracks)] =
                     MetadataPair(WellFormedIds(tm), <<al, TRACK_META>>)
              /\ \A a \in Artists : issued'.artist[a] # issued.artist[a] => a \in WellFormedIds(tm)
              /\ ~tm.has_credit => ev'.errors = <<"artist-credit">>
              /\ tm.has_credit =>
                     Len(ev'.errors) = Cardinality(CreditsWithoutArtist(tm) \cup CreditsWithoutId(tm))]_vars

----------------------------------------------------------------------------
(* C18 *)

\* C18: the entry of an album in albums exists after every processing call for
\* it, is gone after remove_album, and is gone once the last fetch of the album
\* has completed and the write-back was done.
C18_TargetEntryDroppedWhenWritten ==
    /\ ev.op \in {"make_album_vars", "make_track_vars"} => Has(albums, ev.album)
    /\ ev.op = "remove_album" => ~Has(albums, ev.album)
    /\ (ev.op \in Completions /\ ev.written_back /\ InFlight(ev.album) = {}) =>
           ~Has(albums, ev.album)

----------------------------------------------------------------------------
(* C19 *)

\* C19: a record of result_cache[ARTIST] is never changed or removed, and a
\* record appears only in the step that runs the handler of that artist's fetch
\* with a document.
C19_ArtistRecordAppendOnly ==
    [][\A a \in Artists :
           /\ Has(result_cache.artist, a) =>
                  /\ Has(result_cache'.artist, a)
                  /\ result_cache'.artist[a] = result_cache.artist[a]
           /\ (~Has(result_cache.artist, a) /\ Has(result_cache'.artist, a)) =>
                  /\ ev'.op = "artist_done"
                  /\ \E t \in tasks \ tasks' : t.kind = ARTIST /\ t.id = a
                  /\ a \notin failed']_vars

\* Both artists have a record, one fetch had been issued for each, and an album
\* that refers to them has just been removed.
C19_Witness ==
    /\ ev.op = "remove_album"
    /\ \A a \in Artists : Has(result_cache.artist, a) /\ issued.artist[a] = 1
    /\ result_cache.artist["a1"]["area"] = "r1"

----------------------------------------------------------------------------
(* C20 *)

\* What _parse_area_relation does with a backward part-of relation from the
\* responding area (a county) to a related area R, in the current state: the
\* responding area is stored with parent R and marked requested unless it is
\* stored; a country R is stored with empty parent unless stored, without a
\* fetch; for another R a fetch is issued exactly when R is neither stored nor
\* requested, and the fetch is counted for the album and R joins the album's
\* outstanding areas.
BackwardRelationEffects ==
    \A al \in Albums, area \in Areas, rtype \in {AREA_TYPE_COUNTRY, AREA_TYPE_COUNTY} :
        \A rel \in Areas \ {area} :
            LET s == State
                s2 == _parse_area_relation(s, area, Relation(RELATIONSHIP_TYPE_PART_OF,
                                               "backward", rel, rtype),
                                           al, area, AREA_TYPE_COUNTY, AREA_TYPE_COUNTY)
                fetched == s2.issued.area[rel] = s.issued.area[rel] + 1
            IN  /\ IF Has(s.rc.area, area)
                   THEN s2.rc.area[area] = s.rc.area[area]
                   ELSE /\ Has(s2.rc.area, area) /\ s2.rc.area[area].parent = rel
                        /\ area \in s2.rc.area_requests
                /\ rtype = AREA_TYPE_COUNTRY =>
                       /\ Has(s2.rc.area, rel)
                       /\ IF Has(s.rc.area, rel) THEN s2.rc.area[rel] = s.rc.area[rel]
                          ELSE /\ s2.rc.area[rel].parent = ""
                               /\ s2.rc.area[rel].type = AREA_TYPE_COUNTRY
                       /\ s2.issued = s.issued
                /\ rtype # AREA_TYPE_COUNTRY =>
                       /\ fetched <=> (~Has(s.rc.area, rel) /\ rel \notin s.rc.area_requests)
                       /\ ~fetched => s2.issued = s.issued
                       /\ fetched =>
                              /\ Task(AREA, rel, al) \in s2.tasks
                              /\ s2.count[al] = (IF Has(s.count, al) THEN s.count[al] ELSE 0) + 1
                              /\ rel \in s2.aar[al]

\* After the completion of an area fetch that left the fetch of the parent of a
\* stored area in flight for the album, the album's counter is at least 1.
CounterHeldWhileClimbing ==
    (/\ ev.op = "area_done"
     /\ \E t \in InFlight(ev.album) :
            /\ t.kind = AREA
            /\ \E r \in DOMAIN result_cache.area : result_cache.area[r].parent = t.id) =>
        Has(album_processing_count, ev.album) /\ album_processing_count[ev.album] >= 1

\* C20: a backward part-of relation has the effects above, and as the fetch of
\* the related area is counted before the responding area's completion is
\* decremented, the album's counter is not 0 after a completion that left the
\* fetch of the related area in flight.
C20_BackwardRelationClimbs == BackwardRelationEffects /\ CounterHeldWhileClimbing

----------------------------------------------------------------------------
(* C21 *)

\* The area fetches in flight for an album.
AreasInFlight(album_id) == {t.id : t \in {u \in InFlight(album_id) : u.kind = AREA}}

\* What the handler of the area fetch t does when it runs in the current state
\* with this outcome: it removes t.id and nothing else from the album's set,
\* adds the areas it fetches itself, changes the counter by the number of those
\* fetches less one, and on error stores nothing.
AreaCompletionEffects(t, document, error) ==
    LET s == State
        s2 == _area_submission_handler([s EXCEPT !.tasks = @ \ {t}], plugin_config,
                                       document, error, t.id, t.album)
        new == {u.id : u \in {v \in s2.tasks \ s.tasks : v.kind = AREA /\ v.album = t.album}}
    IN  /\ t.id \notin s2.aar[t.album]
        /\ s2.aar[t.album] = (s.aar[t.album] \ {t.id}) \cup new
        /\ s2.count[t.album] = s.count[t.album] - 1 + Cardinality(new)
        /\ \A al \in DOMAIN s.aar \ {t.album} : s2.aar[al] = s.aar[al]
        /\ error => new = {} /\ s2.rc = s.rc

\* C21: with no album removed, album_area_requests[album] is exactly the set of
\* areas whose fetch was issued for the album and has not completed; the
\* completion of a fetch removes its own identifier only and decrements the
\* counter, with a document and with an error, and an error stores no record.
C21_OutstandingAreasAreFetchesInFlight ==
    /\ \A al \in Albums : OutstandingAreas(al) = AreasInFlight(al)
    /\ \A t \in tasks : t.kind = AREA =>
           /\ AreaCompletionEffects(t, [info |-> AreaInfo(t.id, ""), relations |-> <<>>], TRUE)
           /\ \A document \in AreaHierarchyDocs(t.id) : AreaCompletionEffects(t, document, FALSE)

\* The fetch of r1 has completed without a record being stored, and the fetch of
\* r2, issued for the same album, is still outstanding.
C21_Witness ==
    /\ ev.op = "area_done"
    /\ issued.area["r1"] = 1 /\ ~Has(result_cache.area, "r1")
    /\ OutstandingAreas(ev.album) = {"r2"}
    /\ Task(AREA, "r2", ev.album) \in tasks

----------------------------------------------------------------------------
(* C22 *)

\* The positions, among the first 7 of the chain from start, of the areas that
\* have a country code, and of the identifiers that are not empty.
CountryHops(cache, start) == {k \in 1..7 : HopArea(cache, start, k).country # ""}
ChainHops(cache, start) == {k \in 1..7 : HopId(cache, start, k) # ""}

\* The names of the first n areas of the chain from start, in chain order.
ChainNames(cache, start, n) == [k \in 1..n |-> HopArea(cache, start, k).name]

\* a is b with some of its elements left out.
RECURSIVE IsSubsequence(_, _)
IsSubsequence(a, b) ==
    IF a = <<>> THEN TRUE
    ELSE IF b = <<>> THEN FALSE
    ELSE IF Head(a) = Head(b) THEN IsSubsequence(Tail(a), Tail(b))
    ELSE IsSubsequence(a, Tail(b))

\* C22: _drill_area returns the country code of the first area on the chain that
\* has one and stops there, or the empty code after the last area of the chain
\* (an area missing from the cache is looked up as an all-empty record and is
\* the last) or after 7 areas; the components are names of the areas looked up,
\* in chain order.
C22_FirstCountryEndsTheClimb ==
    drilled.called =>
        LET cache == result_cache.area
            start == drilled.area_id
            first == CHOOSE k \in CountryHops(cache, start) :
                         \A j \in CountryHops(cache, start) : k <= j
        IN  /\ IF CountryHops(cache, start) # {}
               THEN /\ drilled.country = HopArea(cache, start, first).country
                    /\ drilled.lookups = first
               ELSE /\ drilled.country = ""
                    /\ drilled.lookups = Cardinality(ChainHops(cache, start))
            /\ IsSubsequence(drilled.location,
                             ChainNames(cache, start, drilled.lookups))

\* The third area of the chain is a country and so is the fourth: the climb
\* ended at the third, whose name is the last component.
C22_Witness ==
    /\ drilled.called /\ drilled.area_id = "d1"
    /\ drilled.country = "CC" /\ drilled.lookups = 3
    /\ Has(result_cache.area, "d4") /\ result_cache.area["d4"].country = "XX"
    /\ drilled.location[Len(drilled.location)] = "n3"

----------------------------------------------------------------------------
(* C23 *)

\* The artists of the pairs registered for the album with this target.
TargetArtists(album_id, t) ==
    UNION {albums[album_id].tracks[i].artists :
               i \in {j \in 1..Len(albums[album_id].tracks) : albums[album_id].tracks[j].target = t}}

Registered(album_id) ==
    {albums[album_id].tracks[i].target : i \in 1..Len(albums[album_id].tracks)}

\* The artists whose fields a write-back for the album is to put into target t.
Expected(album_id, t) ==
    IF t \in Registered(album_id)
    THEN {a \in albums[album_id].album_artists \cup TargetArtists(album_id, t) :
              Has(result_cache.artist, a)}
    ELSE {}

\* The keys _set_artist_metadata sets for the artist with the cache as it is.
KeysOf(a) == _set_artist_metadata(result_cache.area, plugin_config, a, result_cache.artist[a])

RawAreaKeys == {"area", "begin_area", "end_area"}

\* An area item gives the country key exactly when _drill_area yields a code and
\* the location key exactly when it yields a location, and never a key of its own.
AreaKeysRule ==
    \A a \in DOMAIN result_cache.artist :
        /\ \A key \in RawAreaKeys : <<a, key>> \notin KeysOf(a)
        /\ \A k \in 1..3 :
               LET item == AreaItems[k]
                   present == result_cache.artist[a][item] # ""
                   d == _drill_area(result_cache.area, plugin_config, result_cache.artist[a][item])
               IN  /\ <<a, AreaKey(item, "country")>> \in KeysOf(a) <=> present /\ d.country # ""
                   /\ <<a, AreaKey(item, "location")>> \in KeysOf(a)
                          <=> present /\ ~JoinIsEmpty(d.location)

\* A step that writes back adds to each target of the album the artists it is
\* to write there, and adds nothing else to any target.
WriteBackStep ==
    \A al \in Albums :
        ev'.written_back /\ ev'.album = al =>
            \A t \in Targets :
                metadata'[t] = metadata[t] \cup (IF t[1] = al THEN Expected(al, t)' ELSE {})

\* C23: a write-back for an album writes into each registered destination the
\* fields of the artists that are album artists or artists of that destination
\* and have a record in result_cache[ARTIST], and of no other artist; for an
\* area item it writes the country key when _drill_area yields a country code,
\* the location key when it yields a location, and never the identifier.
C23_WriteBackWritesOwnArtists == [][WriteBackStep]_vars /\ []AreaKeysRule

\* A write-back for album X, whose album artist is a1 and whose track credits
\* a2, with both artists stored: the album target holds a1 only, the track
\* target both; a1 has an area that leads to a country.
C23_Witness ==
    /\ ev.written_back /\ ev.album = "X"
    /\ {"a1", "a2"} \subseteq DOMAIN result_cache.artist
    /\ Registered("X") = {<<"X", ALBUM_META>>, <<"X", TRACK_META>>}
    /\ metadata[<<"X", ALBUM_META>>] = {"a1"}
    /\ metadata[<<"X", TRACK_META>>] = {"a1", "a2"}
    /\ <<"a1", "country">> \in KeysOf("a1")

----------------------------------------------------------------------------
(* C24 *)

\* The part-of relations of AreaRelations and, with them, relations that
\* contradict them or lack their direction: the document of r1 lists r2 without
\* a direction, the document of r2 lists r1 as the area it is a part of.
HierarchyRelations(area) ==
    AreaRelations(area)
    \cup (IF area = "r1"
          THEN {Relation(RELATIONSHIP_TYPE_PART_OF, ABSENT, "r2", t) : t \in DocTypes("r2")}
          ELSE {Relation(RELATIONSHIP_TYPE_PART_OF, "backward", "r1", AREA_TYPE_COUNTY)})

HierarchyDocs(area) ==
    {[info |-> AreaInfo(area, t), relations |-> rels] :
        t \in DocTypes(area), rels \in {<<>>} \cup {<<r>> : r \in HierarchyRelations(area)}}

AreaResolvedAny(t) ==
    t.kind = AREA /\ \E document \in HierarchyDocs(t.id) : AreaDone(t, document, FALSE)

HierarchyNext ==
    \/ \E al \in Albums : make_album_vars(al, AlbumArtistsOf(al))
    \/ \E t \in tasks : ArtistResolvedWide(t)
    \/ \E t \in tasks : ArtistFailed(t)
    \/ \E t \in tasks : AreaFailed(t)
    \/ \E t \in tasks : AreaResolvedAny(t)

HierarchySpec == Init /\ [][HierarchyNext]_vars

\* Following parent identifiers from start does not come back to an area
\* already visited.
NoReturn(cache, start) ==
    \A j, k \in 1..(Cardinality(Areas) + 1) :
        j < k /\ HopId(cache, start, k) # "" => HopId(cache, start, j) # HopId(cache, start, k)

CountryNodesAreRoots ==
    \A r \in DOMAIN result_cache.area :
        result_cache.area[r].country # "" => result_cache.area[r].parent = ""

\* C24 as stated: the parent pointers stored in result_cache[AREA] form a
\* forest, and every stored area with a country code has an empty parent.
C24_ParentsFormForest ==
    /\ \A r \in DOMAIN result_cache.area : NoReturn(result_cache.area, r)
    /\ CountryNodesAreRoots

\* C24: every stored area with a country code has an empty parent, so that a
\* chain of parent identifiers that comes back to an area already visited
\* passes through no area with a country code; the parent pointers need not
\* form a forest.
C24_CountryNodesEndEveryChain ==
    /\ CountryNodesAreRoots
    /\ \A r \in DOMAIN result_cache.area :
           ~NoReturn(result_cache.area, r) =>
               \A k \in 1..(Cardinality(Areas) + 1) :
                   HopArea(result_cache.area, r, k).country = ""

\* The records of r1 and r2 name each other as parent.
C24_Witness ==
    /\ ev.op = "area_done"
    /\ Has(result_cache.area, "r1") /\ result_cache.area["r1"].parent = "r2"
    /\ Has(result_cache.area, "r2") /\ result_cache.area["r2"].parent = "r1"

----------------------------------------------------------------------------
(* C25 *)

\* album_processing_count.get(album_id, 0)
Counter(album_id) ==
    IF Has(album_processing_count, album_id) THEN album_processing_count[album_id] ELSE 0

\* C25: while no album is removed, the counter of every album is the number of
\* fetches, artist and area, issued for it whose handler has not run.
C25_CounterCountsFetchesInFlight ==
    \A al \in Albums : Counter(al) = Cardinality(InFlight(al))

\* The handler of an artist fetch of album Y has issued an area fetch while the
\* other artist fetch of the album is in flight: the counter is 2.
C25_Witness ==
    /\ ev.op = "artist_done" /\ ev.album = "Y"
    /\ Counter("Y") = 2
    /\ {t.kind : t \in InFlight("Y")} = {ARTIST, AREA}

----------------------------------------------------------------------------
(* C26 *)

\* C26: no album is removed and every issued fetch completes; once no fetch is
\* in flight, every destination of every album holds the fields of each artist
\* it refers to (album artist or artist of the destination) that has a record
\* in result_cache[ARTIST], also when the fetch of the artist was issued for
\* another album and in flight when this album referred to it.
C26_SharedArtistReachesEveryAlbum ==
    tasks = {} =>
        \A al \in DOMAIN albums : \A t \in Registered(al) :
            \A a \in albums[al].album_artists \cup TargetArtists(al, t) :
                Has(result_cache.artist, a) => a \in metadata[t]

====
